---- MODULE Spec2Model ----
(***************************************************************************)
(* graphez: the connectivity-to-graph pipeline of src/connectivity.py and  *)
(* src/metrics.py.  Every function of the pipeline is a pure function of   *)
(* its arguments; the state machine is a caller that makes one call at a   *)
(* time: from "idle" it calls a function with arguments drawn from bounded *)
(* sets, the outcome (a returned value or a raised exception) is recorded, *)
(* and Return goes back to "idle".                                         *)
(*                                                                         *)
(* A numpy array is the record [shape, data]: shape is the tuple of its    *)
(* dimensions and data its entries in row-major order, so a 0-d array has  *)
(* shape <<>> and one entry, a vector shape <<k>>, a matrix shape <<r,c>>. *)
(* Entries are integers; a mean or a ratio is the exact rational           *)
(* <<numerator, denominator>>, and <<1, 0>> stands for +infinity (np.inf). *)
(***************************************************************************)
EXTENDS Integers, Sequences, FiniteSets

VARIABLES pc, fn, args, ret

vars == <<pc, fn, args, ret>>

\* ---------------------------------------------------------------- bounds

\* Largest declared channel count n_channels.
MaxN == 3

\* Largest connectivity weight in a triangular vector.
MaxW == 2

\* Largest number of rows or columns of a 2-D input.
MaxDim == 2

\* Largest entry of a 2-D input.
MaxMatW == 1

\* Largest number of frequency bands of a multiband mapping.
MaxBands == 3

\* ---------------------------------------------------------------- arrays

Tri(n) == (n * (n - 1)) \div 2

Arr(shape, data) == [shape |-> shape, data |-> data]

Ndim(a) == Len(a.shape)

Vec(s) == Arr(<<Len(s)>>, s)

\* a[i, j] of a 2-D array, i and j counted from 0 as in the source.
At(a, i, j) == a.data[i * a.shape[2] + j + 1]

Zeros(r, c) == Arr(<<r, c>>, [k \in 1..(r * c) |-> 0])

\* full_matrix[i, j] = v: the assignment of one entry of an r x c matrix.
SetAt(a, i, j, v) == Arr(a.shape, [a.data EXCEPT ![i * a.shape[2] + j + 1] = v])

\* numpy.ndarray.squeeze(): the dimensions of size 1 are removed from the
\* shape, the entries are kept.
RECURSIVE DropOnes(_)
DropOnes(shape) ==
    IF shape = <<>> THEN <<>>
    ELSE IF Head(shape) = 1 THEN DropOnes(Tail(shape))
         ELSE <<Head(shape)>> \o DropOnes(Tail(shape))

Squeeze(a) == Arr(DropOnes(a.shape), a.data)

\* ------------------------------------------------------------- outcomes

Ok(v) == [status |-> "ok", value |-> v]

Raised(e) == [status |-> "error", value |-> e]

\* ------------------------------------- connectivity.py: matrix reconstructor

\* The nested loop of prepare_connectivity_matrix, from position (i, j) with
\* idx elements consumed: one element per pair j < i, written to both
\* full_matrix[i, j] and full_matrix[j, i].
\* The loop without the mirrored assignment full_matrix[j, i] = ....
RECURSIVE FillLowerOnly(_, _, _, _, _, _)
FillLowerOnly(full, v, n, i, j, idx) ==
    IF i >= n THEN full
    ELSE IF j >= i THEN FillLowerOnly(full, v, n, i + 1, 0, idx)
    ELSE FillLowerOnly(SetAt(full, i, j, v[idx + 1]), v, n, i, j + 1, idx + 1)

RECURSIVE FillLower(_, _, _, _, _, _)
FillLower(full, v, n, i, j, idx) ==
    IF i >= n THEN full
    ELSE IF j >= i THEN FillLower(full, v, n, i + 1, 0, idx)
    ELSE FillLower(SetAt(SetAt(full, i, j, v[idx + 1]), j, i, v[idx + 1]),
                   v, n, i, j + 1, idx + 1)

\* The function with the test ndim >= 1 in place of ndim == 1: a matrix is
\* read as a vector too.
prepare_any_dimension(con_matrix, n_channels) ==
    LET sq == Squeeze(con_matrix) IN
    IF Ndim(sq) >= 1
    THEN IF Tri(n_channels) > Len(sq.data)
         THEN Raised("IndexError")
         ELSE Ok(FillLower(Zeros(n_channels, n_channels), sq.data,
                           n_channels, 0, 0, 0))
    ELSE Ok(sq)

\* prepare_connectivity_matrix(con_matrix, n_channels).  Reading
\* con_matrix[idx] past the end of the vector raises IndexError, which
\* happens exactly when the loop needs more than len(con_matrix) elements.
prepare_connectivity_matrix(con_matrix, n_channels) ==
    LET sq == Squeeze(con_matrix) IN
    IF Ndim(sq) = 1
    THEN IF Tri(n_channels) > Len(sq.data)
         THEN Raised("IndexError")
         ELSE Ok(FillLower(Zeros(n_channels, n_channels), sq.data,
                           n_channels, 0, 0, 0))
    ELSE Ok(sq)

\* ------------------------------------ connectivity.py: threshold calculator

\* Proportions are the rationals num / PDen.
PDen == 4

Abs(x) == IF x < 0 THEN -x ELSE x

Min(a, b) == IF a < b THEN a ELSE b

\* int(x) of Python for x = a / b, b > 0: truncation toward zero.
TruncDiv(a, b) == IF a >= 0 THEN a \div b ELSE -((-a) \div b)

\* The double loop of calculate_connectivity_threshold from position (i, j):
\* abs(filtered_con[i, j]) for each pair i < j < n_valid, in loop order.
RECURSIVE UpperStrengths(_, _, _, _)
UpperStrengths(m, n_valid, i, j) ==
    IF i >= n_valid THEN <<>>
    ELSE IF j >= n_valid THEN UpperStrengths(m, n_valid, i + 1, i + 2)
    ELSE <<Abs(At(m, i, j))>> \o UpperStrengths(m, n_valid, i, j + 1)

RECURSIVE InsertDesc(_, _)
InsertDesc(x, s) ==
    IF s = <<>> THEN <<x>>
    ELSE IF x >= Head(s) THEN <<x>> \o s
    ELSE <<Head(s)>> \o InsertDesc(x, Tail(s))

\* list.sort(reverse=True)
RECURSIVE SortDesc(_)
SortDesc(s) == IF s = <<>> THEN <<>> ELSE InsertDesc(Head(s), SortDesc(Tail(s)))

\* cutoff_index = min(int(threshold * len(strengths)), len(strengths) - 1)
CutoffIndex(num, count) == Min(TruncDiv(num * count, PDen), count - 1)

\* connection_strengths[k] of a Python list: a negative k counts from the
\* end, and an index outside -len..len-1 raises IndexError.
ListIndex(s, k) ==
    IF k >= 0 /\ k < Len(s) THEN Ok(s[k + 1])
    ELSE IF k < 0 /\ k >= -Len(s) THEN Ok(s[Len(s) + k + 1])
    ELSE Raised("IndexError")

\* calculate_connectivity_threshold(filtered_con, threshold, valid_channels);
\* threshold is num / PDen and only len(valid_channels) = n_valid is read.
\* filtered_con[i, j] raises IndexError unless filtered_con is 2-D and holds
\* the entry.
calculate_connectivity_threshold(filtered_con, num, n_valid) ==
    IF n_valid >= 2 /\ (Ndim(filtered_con) # 2
                        \/ filtered_con.shape[1] < n_valid - 1
                        \/ filtered_con.shape[2] < n_valid)
    THEN Raised("IndexError")
    ELSE LET strengths == SortDesc(UpperStrengths(filtered_con, n_valid, 0, 1)) IN
         IF strengths # <<>>
         THEN ListIndex(strengths, CutoffIndex(num, Len(strengths)))
         ELSE Ok(0)

\* ------------------------------------------- metrics.py: degree strength

RECURSIVE SumSeq(_)
SumSeq(s) == IF s = <<>> THEN 0 ELSE Head(s) + SumSeq(Tail(s))

\* networkx.from_numpy_array on an undirected Graph: every nonzero entry
\* A[u, v], taken in row-major order from flat position k, adds the edge
\* {u, v} with weight A[u, v]; an edge added again keeps the later weight.
\* The graph is its symmetric weight table g (0: no edge).
RECURSIVE AddEdges(_, _, _)
AddEdges(g, a, k) ==
    LET m == a.shape[1]
        u == k \div m
        v == k % m
    IN  IF k >= m * m THEN g
        ELSE IF a.data[k + 1] # 0
             THEN AddEdges(SetAt(SetAt(g, u, v, a.data[k + 1]), v, u, a.data[k + 1]),
                           a, k + 1)
             ELSE AddEdges(g, a, k + 1)

\* G.degree(node, weight='weight'): the weights of the edges at the node, a
\* self-loop counted twice.
WeightedDegree(g, node) ==
    SumSeq([j \in 1..g.shape[1] |-> At(g, node, j - 1)]) + At(g, node, node)

\* compute_degree_strength(con, n_channels).  from_numpy_array raises
\* NetworkXError on an array that is not 2-D and square.
compute_degree_strength(con, n_channels) ==
    LET prepared == prepare_connectivity_matrix(con, n_channels) IN
    IF prepared.status = "error" THEN prepared
    ELSE LET a == prepared.value IN
         IF Ndim(a) # 2 \/ a.shape[1] # a.shape[2]
         THEN Raised("NetworkXError")
         ELSE LET g == AddEdges(Zeros(a.shape[1], a.shape[1]), a, 0) IN
              Ok([node \in 1..a.shape[1] |-> WeightedDegree(g, node - 1)])

\* --------------------------------------- metrics.py: hemisphere analyzer

left_hemisphere == {"C3", "F3", "F7", "Fp1", "P3", "T3", "T5"}

right_hemisphere == {"C4", "F4", "F8", "Fp2", "P4", "T4", "T6"}

midline == {"Cz", "Fpz", "Pz", "O1", "O2"}

\* +infinity (np.inf) as a ratio.
Inf == <<1, 0>>

\* Comparison of two rationals with positive denominators.
RatGT(a, b) == a[1] * b[2] > b[1] * a[2]

\* a / b for a rational b > 0.
RatDiv(a, b) == <<a[1] * b[2], a[2] * b[1]>>

\* metric_func(con, n_channels): the default compute_degree_strength, or a
\* caller's function, which is the vector it returns for these arguments.
MetricCall(metric_func, con, n_channels) ==
    IF metric_func.default THEN compute_degree_strength(con, n_channels)
    ELSE Ok(metric_func.returns)

\* [i for i, ch in enumerate(ch_names) if ch in group], from position i:
\* the indices (from 0) of the names of the group, ascending.
RECURSIVE GroupIndices(_, _, _)
GroupIndices(ch_names, group, i) ==
    IF i >= Len(ch_names) THEN <<>>
    ELSE IF ch_names[i + 1] \in group
         THEN <<i>> \o GroupIndices(ch_names, group, i + 1)
         ELSE GroupIndices(ch_names, group, i + 1)

\* metric_values[indices] if indices else np.array([]): an index past the
\* end of metric_values raises IndexError.
GroupValues(metric_values, indices) ==
    IF \E k \in 1..Len(indices) : indices[k] >= Len(metric_values)
    THEN Raised("IndexError")
    ELSE Ok([k \in 1..Len(indices) |-> metric_values[indices[k] + 1]])

\* np.mean(values) without the guard: the mean of no value is nan, <<0, 0>>.
GroupMeanUnguarded(values) == <<SumSeq(values), Len(values)>>

\* np.mean(values) if len(values) > 0 else 0
GroupMean(values) ==
    IF Len(values) > 0 THEN <<SumSeq(values), Len(values)>> ELSE <<0, 1>>

\* The decision with >= in the first comparison: a tie goes to Left.
DominanceTieLeft(left_mean, right_mean) ==
    IF ~RatGT(right_mean, left_mean)
    THEN [dominant_hemisphere |-> "Left",
          dominance_ratio |-> IF right_mean[1] > 0
                              THEN RatDiv(left_mean, right_mean) ELSE Inf]
    ELSE [dominant_hemisphere |-> "Right",
          dominance_ratio |-> IF left_mean[1] > 0
                              THEN RatDiv(right_mean, left_mean) ELSE Inf]

\* The decision with the guards != 0 in place of > 0: a negative smaller
\* mean is divided by.
DominanceNonzeroGuard(left_mean, right_mean) ==
    IF RatGT(left_mean, right_mean)
    THEN [dominant_hemisphere |-> "Left",
          dominance_ratio |-> IF right_mean[1] # 0
                              THEN RatDiv(left_mean, right_mean) ELSE Inf]
    ELSE IF RatGT(right_mean, left_mean)
    THEN [dominant_hemisphere |-> "Right",
          dominance_ratio |-> IF left_mean[1] # 0
                              THEN RatDiv(right_mean, left_mean) ELSE Inf]
    ELSE [dominant_hemisphere |-> "Bilateral", dominance_ratio |-> <<1, 1>>]

\* The dominance decision on the two hemisphere means.
Dominance(left_mean, right_mean) ==
    IF RatGT(left_mean, right_mean)
    THEN [dominant_hemisphere |-> "Left",
          dominance_ratio |-> IF right_mean[1] > 0
                              THEN RatDiv(left_mean, right_mean) ELSE Inf]
    ELSE IF RatGT(right_mean, left_mean)
    THEN [dominant_hemisphere |-> "Right",
          dominance_ratio |-> IF left_mean[1] > 0
                              THEN RatDiv(right_mean, left_mean) ELSE Inf]
    ELSE [dominant_hemisphere |-> "Bilateral", dominance_ratio |-> <<1, 1>>]

\* The scan with >= in place of >: the last index of the largest value.
RECURSIVE ArgmaxLast(_, _, _)
ArgmaxLast(metric_values, i, best) ==
    IF i >= Len(metric_values) THEN best
    ELSE IF metric_values[i + 1] >= metric_values[best + 1]
         THEN ArgmaxLast(metric_values, i + 1, i)
         ELSE ArgmaxLast(metric_values, i + 1, best)

\* np.argmax(metric_values) of a non-empty vector, scanning from position i
\* with the best index so far: the first index of the largest value.
RECURSIVE ArgmaxFrom(_, _, _)
ArgmaxFrom(metric_values, i, best) ==
    IF i >= Len(metric_values) THEN best
    ELSE IF metric_values[i + 1] > metric_values[best + 1]
         THEN ArgmaxFrom(metric_values, i + 1, i)
         ELSE ArgmaxFrom(metric_values, i + 1, best)

\* The hemisphere of the most active channel.
HemisphereOf(channel) ==
    IF channel \in left_hemisphere THEN "Left"
    ELSE IF channel \in right_hemisphere THEN "Right"
    ELSE "Midline"

NamesAt(ch_names, indices) == [k \in 1..Len(indices) |-> ch_names[indices[k] + 1]]

\* analyze_hemisphere_epileptogenic_zone(con, n_channels, ch_names,
\* metric_func).  An exception of metric_func propagates; np.argmax of an
\* empty vector raises ValueError; ch_names[max_idx] past the end of
\* ch_names raises IndexError.
analyze_hemisphere_epileptogenic_zone(con, n_channels, ch_names, metric_func) ==
    LET metric == MetricCall(metric_func, con, n_channels) IN
    IF metric.status = "error" THEN metric
    ELSE
    LET metric_values == metric.value
        left_indices == GroupIndices(ch_names, left_hemisphere, 0)
        right_indices == GroupIndices(ch_names, right_hemisphere, 0)
        midline_indices == GroupIndices(ch_names, midline, 0)
        left_values == GroupValues(metric_values, left_indices)
        right_values == GroupValues(metric_values, right_indices)
        midline_values == GroupValues(metric_values, midline_indices)
    IN
    IF left_values.status = "error" THEN left_values
    ELSE IF right_values.status = "error" THEN right_values
    ELSE IF midline_values.status = "error" THEN midline_values
    ELSE IF Len(metric_values) = 0 THEN Raised("ValueError")
    ELSE
    LET left_mean == GroupMean(left_values.value)
        right_mean == GroupMean(right_values.value)
        midline_mean == GroupMean(midline_values.value)
        dom == Dominance(left_mean, right_mean)
        max_idx == ArgmaxFrom(metric_values, 0, 0)
    IN
    IF max_idx >= Len(ch_names) THEN Raised("IndexError")
    ELSE Ok([dominant_hemisphere |-> dom.dominant_hemisphere,
             dominance_ratio |-> dom.dominance_ratio,
             left_mean |-> left_mean,
             right_mean |-> right_mean,
             midline_mean |-> midline_mean,
             most_active_channel |-> ch_names[max_idx + 1],
             most_active_hemisphere |-> HemisphereOf(ch_names[max_idx + 1]),
             left_channels |-> NamesAt(ch_names, left_indices),
             right_channels |-> NamesAt(ch_names, right_indices),
             midline_channels |-> NamesAt(ch_names, midline_indices),
             metric_values |-> metric_values])

\* --------------------------------------- metrics.py: multiband aggregator

\* con_results, results and the other dicts are sequences of entries in
\* insertion order; a band of con_results is [band, connectivity, ch_names].

\* The loop over con_results.items() from band k: each band's connectivity
\* is squeezed and analyzed with the first band's channel list; an exception
\* of a band's analysis ends the loop and propagates.
RECURSIVE AnalyzeBands(_, _, _, _, _, _)
AnalyzeBands(con_results, n_channels, ch_names, metric_func, k, results) ==
    IF k > Len(con_results) THEN Ok(results)
    ELSE LET connectivity == Squeeze(con_results[k].connectivity)
             band_analysis == analyze_hemisphere_epileptogenic_zone(
                                  connectivity, n_channels, ch_names, metric_func)
         IN  IF band_analysis.status = "error" THEN band_analysis
             ELSE AnalyzeBands(con_results, n_channels, ch_names, metric_func, k + 1,
                      Append(results, [band |-> con_results[k].band,
                                       analysis |-> band_analysis.value]))

\* sum(1 for dom in band_dominance.values() if dom == label)
RECURSIVE CountDominance(_, _)
CountDominance(results, label) ==
    IF results = <<>> THEN 0
    ELSE (IF Head(results).analysis.dominant_hemisphere = label THEN 1 ELSE 0)
         + CountDominance(Tail(results), label)

\* The conclusion with the label of a band in the last branch, "Bilateral"
\* in place of "Mixed".
OverallDominanceBilateral(left_count, right_count) ==
    IF left_count > right_count THEN "Left"
    ELSE IF right_count > left_count THEN "Right"
    ELSE "Bilateral"

\* The conclusion with >= in the first comparison: a tie goes to Left.
OverallDominanceTieLeft(left_count, right_count) ==
    IF left_count >= right_count THEN "Left"
    ELSE "Right"

\* The overall hemisphere conclusion.
OverallDominance(left_count, right_count) ==
    IF left_count > right_count THEN "Left"
    ELSE IF right_count > left_count THEN "Right"
    ELSE "Mixed"

\* channel_counts[ch] = channel_counts.get(ch, 0) + 1: a known key keeps its
\* place in the dict, a new key is inserted at the end.
CountChannel(channel_counts, ch) ==
    IF \E i \in 1..Len(channel_counts) : channel_counts[i].channel = ch
    THEN [i \in 1..Len(channel_counts) |->
            IF channel_counts[i].channel = ch
            THEN [channel |-> ch, count |-> channel_counts[i].count + 1]
            ELSE channel_counts[i]]
    ELSE Append(channel_counts, [channel |-> ch, count |-> 1])

\* The tally loop over all_most_active, from band k (the dict after band k
\* is taken as a value, c, before the loop goes on).
RECURSIVE TallyChannels(_, _, _)
TallyChannels(results, k, channel_counts) ==
    IF k > Len(results) THEN channel_counts
    ELSE CHOOSE tally \in
             {TallyChannels(results, k + 1, c) :
                c \in {CountChannel(channel_counts,
                                    results[k].analysis.most_active_channel)}} : TRUE

\* The scan with >= in place of >: the last key of the largest count.
RECURSIVE MaxByCountLast(_, _, _)
MaxByCountLast(channel_counts, i, best) ==
    IF i > Len(channel_counts) THEN channel_counts[best].channel
    ELSE IF channel_counts[i].count >= channel_counts[best].count
         THEN MaxByCountLast(channel_counts, i + 1, i)
         ELSE MaxByCountLast(channel_counts, i + 1, best)

\* max(channel_counts, key=channel_counts.get) of a non-empty dict, scanning
\* the keys in insertion order from position i: the first key of the
\* largest count.
RECURSIVE MaxByCount(_, _, _)
MaxByCount(channel_counts, i, best) ==
    IF i > Len(channel_counts) THEN channel_counts[best].channel
    ELSE IF channel_counts[i].count > channel_counts[best].count
         THEN MaxByCount(channel_counts, i + 1, i)
         ELSE MaxByCount(channel_counts, i + 1, best)

\* The loop without the test ratio != np.inf: every band is kept.
RECURSIVE AllRatios(_)
AllRatios(results) ==
    IF results = <<>> THEN <<>>
    ELSE <<[band |-> Head(results).band,
            ratio |-> Head(results).analysis.dominance_ratio]>>
         \o AllRatios(Tail(results))

\* avg_dominance_ratios: the bands whose ratio != np.inf, in band order.
RECURSIVE FiniteRatios(_)
FiniteRatios(results) ==
    IF results = <<>> THEN <<>>
    ELSE (IF Head(results).analysis.dominance_ratio # Inf
          THEN <<[band |-> Head(results).band,
                  ratio |-> Head(results).analysis.dominance_ratio]>>
          ELSE <<>>)
         \o FiniteRatios(Tail(results))

\* a + b of two rationals.
RatAdd(a, b) == <<a[1] * b[2] + b[1] * a[2], a[2] * b[2]>>

RECURSIVE SumRatios(_)
SumRatios(ratios) ==
    IF ratios = <<>> THEN <<0, 1>>
    ELSE RatAdd(Head(ratios).ratio, SumRatios(Tail(ratios)))

\* np.mean(list(avg_dominance_ratios.values())) if avg_dominance_ratios
\* else 1.0
AverageRatio(ratios) ==
    IF ratios # <<>>
    THEN <<SumRatios(ratios)[1], SumRatios(ratios)[2] * Len(ratios)>>
    ELSE <<1, 1>>

\* The summary across all bands, of the results of the band loop.
MultibandSummary(results, total_bands) ==
    LET left_count == CountDominance(results, "Left")
        right_count == CountDominance(results, "Right")
        bilateral_count == CountDominance(results, "Bilateral")
        channel_counts == TallyChannels(results, 1, <<>>)
        avg_dominance_ratios == FiniteRatios(results)
    IN
    [band_results |-> results,
     overall_dominance |-> OverallDominance(left_count, right_count),
     band_dominance_summary |->
         [left_count |-> left_count,
          right_count |-> right_count,
          bilateral_count |-> bilateral_count,
          total_bands |-> total_bands],
     most_frequent_active_channel |-> MaxByCount(channel_counts, 1, 1),
     channel_frequency |-> channel_counts,
     average_dominance_ratio |-> AverageRatio(avg_dominance_ratios),
     band_specific_ratios |-> avg_dominance_ratios]

\* analyze_multiband_hemisphere_epileptogenic_zone(con_results, metric_func).
\* next(iter(con_results.values())) of an empty mapping raises
\* StopIteration.
analyze_multiband_hemisphere_epileptogenic_zone(con_results, metric_func) ==
    IF con_results = <<>> THEN Raised("StopIteration")
    ELSE
    LET first_band == con_results[1]
        n_channels == Len(first_band.ch_names)
        ch_names == first_band.ch_names
    IN  CHOOSE outcome \in
            {IF analyzed.status = "error" THEN analyzed
             ELSE Ok(MultibandSummary(analyzed.value, Len(con_results))) :
               analyzed \in {AnalyzeBands(con_results, n_channels, ch_names,
                                          metric_func, 1, <<>>)}} : TRUE

\* ---------------------------------------------------------------- inputs

Weights == 0..MaxW

\* 1-D inputs: every vector of up to Tri(MaxN) + 1 weights (shorter than,
\* equal to and longer than the triangle of each n_channels).
VecInputs ==
    UNION {{Vec(s) : s \in [1..k -> Weights]} : k \in 0..(Tri(MaxN) + 1)}

\* 2-D inputs: every r x c matrix, 1 <= r, c <= MaxDim.
MatInputs ==
    UNION {{Arr(<<r, c>>, d) : d \in [1..(r * c) -> 0..MaxMatW]} :
           r \in 1..MaxDim, c \in 1..MaxDim}

ConInputs == VecInputs \cup MatInputs

Channels == 0..MaxN

\* Matrices handed to the threshold calculator: the symmetric n x n
\* matrices with zero diagonal, entries of either sign.
ThresholdWeights == (-1)..MaxW

SymmetricInputs ==
    UNION {{FillLower(Zeros(n, n), s, n, 0, 0, 0) :
              s \in [1..Tri(n) -> ThresholdWeights]} : n \in Channels}

\* Proportions num / PDen from -3/2 to 3/2 (PDen = 4).
Proportions == (-(PDen + 2))..(PDen + 2)

\* Channel names: two of the left set, one of the right set, one of the
\* midline set and one of no set.
ChannelNames == {"C3", "F7", "C4", "Cz", "X1"}

NameLists == UNION {[1..k -> ChannelNames] : k \in Channels}

\* The channel list of a recording of n channels.
Montage == <<"C3", "C4", "Cz", "X1", "F7", "T6", "Pz", "F3">>

\* Values a caller's metric function returns.
MetricValues == (-1)..MaxW

\* The band names, in the order of freq_bands.
BandNames == <<"delta", "theta", "alpha", "beta", "gamma">>

\* The channel list of a multiband recording: a left, a right and a midline
\* channel.
BandChannels == <<"C3", "C4", "Cz">>

\* The connectivity weights of a band: absent or present.
BandWeights == {0, 1}

\* The connectivity of one band, as con.get_data() of a connectivity
\* estimate averaged over the band: a one-column array of the triangle of the
\* recording's size, or an empty vector (too short for it).
BandInputs ==
    {Arr(<<Tri(Len(BandChannels)), 1>>, s) :
       s \in [1..Tri(Len(BandChannels)) -> BandWeights]}
    \cup {Vec(<<>>)}

\* The band mapping of the connectivities c, one per band, in insertion
\* order: every band carries the same channel names.
BandMapping(c) ==
    [k \in 1..Len(c) |-> [band |-> BandNames[k], connectivity |-> c[k],
                          ch_names |-> BandChannels]]

NoArgs == [none |-> 0]

DefaultMetric == [default |-> TRUE, returns |-> <<>>]

CustomMetric(v) == [default |-> FALSE, returns |-> v]

\* ----------------------------------------------------------- the caller

Init ==
    /\ pc = "idle"
    /\ fn = "none"
    /\ args = NoArgs
    /\ ret = Ok(0)

CallPrepare ==
    /\ pc = "idle"
    /\ \E raw \in ConInputs, n \in Channels :
          /\ args' = [con |-> raw, n_channels |-> n]
          /\ ret' = prepare_connectivity_matrix(raw, n)
    /\ fn' = "prepare_connectivity_matrix"
    /\ pc' = "done"

CallThreshold ==
    /\ pc = "idle"
    /\ \E m \in SymmetricInputs, p \in Proportions :
       \E k \in 0..m.shape[1] :
          /\ args' = [filtered_con |-> m, threshold |-> p, n_valid |-> k]
          /\ ret' = calculate_connectivity_threshold(m, p, k)
    /\ fn' = "calculate_connectivity_threshold"
    /\ pc' = "done"

CallDegree ==
    /\ pc = "idle"
    /\ \E raw \in ConInputs, n \in Channels :
          /\ args' = [con |-> raw, n_channels |-> n]
          /\ ret' = compute_degree_strength(raw, n)
    /\ fn' = "compute_degree_strength"
    /\ pc' = "done"

\* analyze_hemisphere_epileptogenic_zone with metric_func=None on a
\* recording of n channels.
CallAnalyzeDefault ==
    /\ pc = "idle"
    /\ \E raw \in ConInputs, n \in Channels :
          /\ args' = [con |-> raw, n_channels |-> n,
                      ch_names |-> SubSeq(Montage, 1, n),
                      metric_func |-> DefaultMetric]
          /\ ret' = analyze_hemisphere_epileptogenic_zone(
                        raw, n, SubSeq(Montage, 1, n), DefaultMetric)
    /\ fn' = "analyze_hemisphere_epileptogenic_zone"
    /\ pc' = "done"

\* analyze_hemisphere_epileptogenic_zone with a caller's metric function,
\* which returns one value per channel name.
CallAnalyzeCustom ==
    /\ pc = "idle"
    /\ \E names \in NameLists :
       \E v \in [1..Len(names) -> MetricValues] :
          /\ args' = [con |-> Vec(<<>>), n_channels |-> Len(names),
                      ch_names |-> names, metric_func |-> CustomMetric(v)]
          /\ ret' = analyze_hemisphere_epileptogenic_zone(
                        Vec(<<>>), Len(names), names, CustomMetric(v))
    /\ fn' = "analyze_hemisphere_epileptogenic_zone"
    /\ pc' = "done"

\* analyze_multiband_hemisphere_epileptogenic_zone with metric_func=None.
CallMultiband ==
    /\ pc = "idle"
    /\ \E nb \in 0..MaxBands :
          \E c \in [1..nb -> BandInputs] :
             \E con_results \in {BandMapping(c)} :
                /\ args' = [con_results |-> con_results, metric_func |-> DefaultMetric]
                /\ ret' = analyze_multiband_hemisphere_epileptogenic_zone(
                              con_results, DefaultMetric)
    /\ fn' = "analyze_multiband_hemisphere_epileptogenic_zone"
    /\ pc' = "done"

Return ==
    /\ pc = "done"
    /\ pc' = "idle"
    /\ fn' = "none"
    /\ args' = NoArgs
    /\ ret' = Ok(0)

Next ==
    \/ CallPrepare
    \/ CallThreshold
    \/ CallDegree
    \/ CallAnalyzeDefault
    \/ CallAnalyzeCustom
    \/ CallMultiband
    \/ Return

\* Every function of the pipeline.
Spec == Init /\ [][Next]_vars

NextReconstructor ==
    \/ CallPrepare
    \/ Return

\* The matrix reconstructor alone.
SpecReconstructor == Init /\ [][NextReconstructor]_vars

NextThreshold ==
    \/ CallThreshold
    \/ Return

\* The threshold calculator alone.
SpecThreshold == Init /\ [][NextThreshold]_vars

NextDegree ==
    \/ CallDegree
    \/ Return

\* The degree-strength metric alone.
SpecDegree == Init /\ [][NextDegree]_vars

NextHemisphere ==
    \/ CallAnalyzeDefault
    \/ CallAnalyzeCustom
    \/ Return

\* The hemisphere analyzer alone.
SpecHemisphere == Init /\ [][NextHemisphere]_vars

NextMultiband ==
    \/ CallMultiband
    \/ Return

\* The multiband aggregator alone.
SpecMultiband == Init /\ [][NextMultiband]_vars

\* ---------------------------------------------------------------- claims

Returned(f) == pc = "done" /\ fn = f

Max(a, b) == IF a > b THEN a ELSE b

\* Entry (i, j) of the symmetric zero-diagonal matrix whose strict lower
\* triangle, row by row, is the vector v.
TriangleEntry(v, i, j) ==
    IF i = j THEN 0 ELSE v[Tri(Max(i, j)) + Min(i, j) + 1]

IsSquare(a, n) == a.shape = <<n, n>>

SymmetricZeroDiagonal(a) ==
    /\ Ndim(a) = 2
    /\ a.shape[1] = a.shape[2]
    /\ \A i, j \in 0..(a.shape[1] - 1) :
          /\ At(a, i, j) = At(a, j, i)
          /\ At(a, i, i) = 0

\* C1: a vector that is the strict lower triangle (row-major) of a symmetric
\* N x N matrix M with zero diagonal is reconstructed to M, entry for entry,
\* for every N including 0, 1 and 2.
C1_RoundTrip ==
    (/\ Returned("prepare_connectivity_matrix")
     /\ Ndim(args.con) = 1
     /\ Len(args.con.data) = Tri(args.n_channels))
    => /\ ret.status = "ok"
       /\ IsSquare(ret.value, args.n_channels)
       /\ \A i, j \in 0..(args.n_channels - 1) :
             At(ret.value, i, j) = TriangleEntry(args.con.data, i, j)

\* C2 as stated: every matrix prepare_connectivity_matrix returns, from a
\* 1-D or a 2-D input, is symmetric with zero diagonal.
C2_EveryReturnSymmetric ==
    (/\ Returned("prepare_connectivity_matrix")
     /\ ret.status = "ok"
     /\ Ndim(ret.value) = 2)
    => SymmetricZeroDiagonal(ret.value)

\* C2 amended: every matrix prepare_connectivity_matrix reconstructs from an
\* input that is 1-D after the squeeze is n x n, symmetric, with zero
\* diagonal.
C2_ReconstructedSymmetric ==
    (/\ Returned("prepare_connectivity_matrix")
     /\ ret.status = "ok"
     /\ Ndim(Squeeze(args.con)) = 1)
    => /\ IsSquare(ret.value, args.n_channels)
       /\ SymmetricZeroDiagonal(ret.value)

\* A 3 x 3 matrix reconstructed from a vector of three different weights.
C2_Witness ==
    /\ Returned("prepare_connectivity_matrix")
    /\ ret.status = "ok"
    /\ Ndim(args.con) = 1
    /\ args.n_channels = 3
    /\ IsSquare(ret.value, 3)
    /\ At(ret.value, 1, 0) = 1
    /\ At(ret.value, 2, 0) = 2
    /\ At(ret.value, 2, 1) = 0

ShapeError(raw, n) ==
    \/ Ndim(raw) = 1 /\ Len(raw.data) # Tri(n)
    \/ Ndim(raw) = 2 /\ raw.shape # <<n, n>>

\* C4: on a shape error prepare_connectivity_matrix, compute_degree_strength
\* and analyze_hemisphere_epileptogenic_zone (with its default metric) end
\* in an error; none returns a result.
C4_ShapeErrorFailsFast ==
    (/\ pc = "done"
     /\ \/ fn = "prepare_connectivity_matrix"
        \/ fn = "compute_degree_strength"
        \/ fn = "analyze_hemisphere_epileptogenic_zone" /\ args.metric_func.default
     /\ ShapeError(args.con, args.n_channels))
    => ret.status = "error"

\* C5: for a fixed matrix and channel subset, the threshold of a proportion
\* p1 is at least the threshold of every proportion p2 >= p1, proportions
\* below 0 and above 1 included, and neither call fails.
C5_ThresholdMonotone ==
    Returned("calculate_connectivity_threshold")
    => \A p2 \in Proportions :
          args.threshold <= p2
          => LET r2 == calculate_connectivity_threshold(
                           args.filtered_con, p2, args.n_valid)
             IN  /\ ret.status = "ok"
                 /\ r2.status = "ok"
                 /\ ret.value >= r2.value

\* The matrix a well-formed input stands for: the triangle vector of length
\* n(n-1)/2, or a symmetric n x n matrix with zero diagonal.
WellFormed(raw, n) ==
    \/ Ndim(raw) = 1 /\ Len(raw.data) = Tri(n)
    \/ IsSquare(raw, n) /\ SymmetricZeroDiagonal(raw)

MatrixEntry(raw, i, j) ==
    IF Ndim(raw) = 1 THEN TriangleEntry(raw.data, i, j) ELSE At(raw, i, j)

RECURSIVE RowSumOffDiagonal(_, _, _, _)
RowSumOffDiagonal(raw, n, i, j) ==
    IF j >= n THEN 0
    ELSE (IF j = i THEN 0 ELSE MatrixEntry(raw, i, j))
         + RowSumOffDiagonal(raw, n, i, j + 1)

\* C6: compute_degree_strength returns exactly n entries, entry i the sum of
\* the off-diagonal entries of row i of the matrix passed (stated here for
\* the well-formed inputs only: a triangle vector of the right length, or a
\* symmetric n x n matrix with zero diagonal).
C6_DegreeIsRowSum ==
    (/\ Returned("compute_degree_strength")
     /\ WellFormed(args.con, args.n_channels))
    => /\ ret.status = "ok"
       /\ Len(ret.value) = args.n_channels
       /\ \A i \in 0..(args.n_channels - 1) :
             ret.value[i + 1] = RowSumOffDiagonal(args.con, args.n_channels, i, 0)

Analyzed ==
    /\ Returned("analyze_hemisphere_epileptogenic_zone")
    /\ ret.status = "ok"

\* Order and equality of two means num / den, den > 0.
Exceeds(a, b) == a[1] * b[2] > b[1] * a[2]

SameValue(a, b) == a[1] * b[2] = b[1] * a[2]

\* ratio is the quotient a / b of two means.
IsQuotient(ratio, a, b) ==
    /\ ratio[2] > 0
    /\ ratio[1] * a[2] * b[1] = ratio[2] * a[1] * b[2]

\* C7: left_mean > right_mean gives Left with ratio left_mean / right_mean
\* when right_mean > 0 and +infinity otherwise; right_mean > left_mean gives
\* Right with ratio right_mean / left_mean when left_mean > 0 and +infinity
\* otherwise; equal means give Bilateral with ratio exactly 1.
C7_DominanceDecision ==
    Analyzed
    => LET r == ret.value
           l == r.left_mean
           rt == r.right_mean
       IN  /\ Exceeds(l, rt)
              => /\ r.dominant_hemisphere = "Left"
                 /\ rt[1] > 0 => IsQuotient(r.dominance_ratio, l, rt)
                 /\ rt[1] <= 0 => r.dominance_ratio = Inf
           /\ Exceeds(rt, l)
              => /\ r.dominant_hemisphere = "Right"
                 /\ l[1] > 0 => IsQuotient(r.dominance_ratio, rt, l)
                 /\ l[1] <= 0 => r.dominance_ratio = Inf
           /\ SameValue(l, rt)
              => /\ r.dominant_hemisphere = "Bilateral"
                 /\ r.dominance_ratio = <<1, 1>>

\* A tie at a positive scale between hemispheres of different sizes.
C7_Witness ==
    /\ Analyzed
    /\ ret.value.dominant_hemisphere = "Bilateral"
    /\ ret.value.left_mean[1] > 0
    /\ Len(ret.value.left_channels) = 2
    /\ Len(ret.value.right_channels) = 1

\* The smaller of the two hemisphere means.
SmallerMean(r) == IF Exceeds(r.left_mean, r.right_mean) THEN r.right_mean ELSE r.left_mean

FiniteAtLeastOne(ratio) == ratio[2] > 0 /\ ratio[1] >= ratio[2]

\* C8 as stated: the dominance ratio is +infinity or a finite number >= 1,
\* and it is +infinity only when the smaller hemisphere mean is zero.
C8_UnboundedOnlyAtZero ==
    Analyzed
    => LET r == ret.value IN
       /\ r.dominance_ratio = Inf \/ FiniteAtLeastOne(r.dominance_ratio)
       /\ r.dominance_ratio = Inf => SmallerMean(r)[1] = 0

\* C8 amended: the dominance ratio is +infinity or a finite number >= 1
\* (never below 1, never negative), and it is +infinity only when the
\* smaller hemisphere mean is zero or negative.
C8_RatioRange ==
    Analyzed
    => LET r == ret.value IN
       /\ r.dominance_ratio = Inf \/ FiniteAtLeastOne(r.dominance_ratio)
       /\ r.dominance_ratio = Inf => SmallerMean(r)[1] <= 0

\* A Left-dominant result whose right mean is negative: the ratio is
\* +infinity.
C8_Witness ==
    /\ Analyzed
    /\ ret.value.dominant_hemisphere = "Left"
    /\ ret.value.left_mean[1] > 0
    /\ ret.value.right_mean[1] < 0
    /\ ret.value.dominance_ratio = Inf

\* The positions (from 1) of the channel names of a group.
Members(names, group) == {i \in 1..Len(names) : names[i] \in group}

RECURSIVE SumOver(_, _)
SumOver(values, positions) ==
    IF positions = {} THEN 0
    ELSE LET i == CHOOSE x \in positions : TRUE
         IN  values[i] + SumOver(values, positions \ {i})

\* The names at the positions, in the order of the channel list.
RECURSIVE Listed(_, _, _)
Listed(names, positions, i) ==
    IF i > Len(names) THEN <<>>
    ELSE (IF i \in positions THEN <<names[i]>> ELSE <<>>)
         \o Listed(names, positions, i + 1)

\* mean is the arithmetic mean of the metric values at the positions, 0 when
\* there is none, and channels lists exactly the names at the positions.
GroupResult(mean, channels, values, names, group) ==
    LET positions == Members(names, group) IN
    /\ channels = Listed(names, positions, 1)
    /\ IF positions = {}
       THEN mean = <<0, 1>> /\ channels = <<>>
       ELSE /\ mean[2] > 0
            /\ mean[1] * Cardinality(positions) = mean[2] * SumOver(values, positions)

\* C9: each group mean is the arithmetic mean of the metric values of
\* exactly the channels whose name is in the group's set; a group without a
\* channel gets mean 0 and an empty channel list; and with one metric value
\* per channel of a non-empty channel list the analysis returns a result,
\* whatever groups are empty and whatever names belong to no set.
C9_GroupMeans ==
    Returned("analyze_hemisphere_epileptogenic_zone")
    => LET metric == MetricCall(args.metric_func, args.con, args.n_channels) IN
       /\ (/\ metric.status = "ok"
           /\ Len(metric.value) = Len(args.ch_names)
           /\ Len(args.ch_names) >= 1)
          => ret.status = "ok"
       /\ ret.status = "ok"
          => LET r == ret.value IN
             /\ r.metric_values = metric.value
             /\ GroupResult(r.left_mean, r.left_channels, r.metric_values,
                            args.ch_names, left_hemisphere)
             /\ GroupResult(r.right_mean, r.right_channels, r.metric_values,
                            args.ch_names, right_hemisphere)
             /\ GroupResult(r.midline_mean, r.midline_channels, r.metric_values,
                            args.ch_names, midline)

\* Two left channels with different values, no right channel, and a channel
\* of no set.
C9_Witness ==
    /\ Analyzed
    /\ args.ch_names = <<"C3", "X1", "F7">>
    /\ ret.value.metric_values = <<2, 2, 1>>
    /\ ret.value.left_mean = <<3, 2>>
    /\ ret.value.right_mean = <<0, 1>>
    /\ ret.value.right_channels = <<>>
    /\ ret.value.midline_channels = <<>>

\* C10: the most active channel is the name at the smallest index whose
\* metric value is the maximum of the whole vector, and its hemisphere is
\* Left or Right by its set and Midline in every other case.
C10_MostActiveChannel ==
    Analyzed
    => LET r == ret.value
           v == r.metric_values
       IN  \E i \in 1..Len(v) :
              /\ \A j \in 1..Len(v) : v[j] <= v[i]
              /\ \A j \in 1..(i - 1) : v[j] < v[i]
              /\ r.most_active_channel = args.ch_names[i]
              /\ r.most_active_hemisphere =
                    IF args.ch_names[i] \in left_hemisphere THEN "Left"
                    ELSE IF args.ch_names[i] \in right_hemisphere THEN "Right"
                    ELSE "Midline"

\* The maximum is shared by a channel of no set and a later left channel:
\* the first one is the most active, with hemisphere Midline.
C10_Witness ==
    /\ Analyzed
    /\ args.ch_names = <<"C4", "X1", "C3">>
    /\ ret.value.metric_values = <<0, 2, 2>>
    /\ ret.value.most_active_channel = "X1"
    /\ ret.value.most_active_hemisphere = "Midline"

Aggregated ==
    /\ Returned("analyze_multiband_hemisphere_epileptogenic_zone")
    /\ ret.status = "ok"

\* The bands (positions in the mapping) whose analysis resolved to a label.
BandsOf(bands, label) ==
    {k \in 1..Len(bands) : bands[k].analysis.dominant_hemisphere = label}

\* C11: every band of the mapping is analysed once, in order, with the first
\* band's channel list; left_count, right_count and bilateral_count are the
\* numbers of bands resolved to Left, Right and Bilateral and sum to
\* total_bands; overall_dominance is Left if left_count > right_count, Right
\* if right_count > left_count, Mixed otherwise.
C11_OverallDominance ==
    Aggregated
    => LET r == ret.value
           bands == r.band_results
           given == args.con_results
           summary == r.band_dominance_summary
           nl == Cardinality(BandsOf(bands, "Left"))
           nr == Cardinality(BandsOf(bands, "Right"))
           nb == Cardinality(BandsOf(bands, "Bilateral"))
       IN  /\ Len(bands) = Len(given)
           /\ \A k \in 1..Len(given) :
                 /\ bands[k].band = given[k].band
                 /\ Ok(bands[k].analysis) =
                       analyze_hemisphere_epileptogenic_zone(
                           given[k].connectivity, Len(given[1].ch_names),
                           given[1].ch_names, args.metric_func)
           /\ summary.left_count = nl
           /\ summary.right_count = nr
           /\ summary.bilateral_count = nb
           /\ summary.total_bands = Len(given)
           /\ nl + nr + nb = summary.total_bands
           /\ r.overall_dominance =
                 IF nl > nr THEN "Left" ELSE IF nr > nl THEN "Right" ELSE "Mixed"

\* Three bands resolved to Left, Right and Bilateral: one each, Mixed.
C11_Witness ==
    /\ Aggregated
    /\ ret.value.band_results[1].analysis.dominant_hemisphere = "Left"
    /\ Len(ret.value.band_results) = 3
    /\ ret.value.band_results[2].analysis.dominant_hemisphere = "Right"
    /\ ret.value.band_results[3].analysis.dominant_hemisphere = "Bilateral"
    /\ ret.value.overall_dominance = "Mixed"

\* The bands whose dominance ratio is finite.
FiniteBands(bands) ==
    {k \in 1..Len(bands) : bands[k].analysis.dominance_ratio # Inf}

\* The bands at the positions, in the order of the mapping, with their
\* ratios.
RECURSIVE RatiosListed(_, _, _)
RatiosListed(bands, positions, k) ==
    IF k > Len(bands) THEN <<>>
    ELSE (IF k \in positions
          THEN <<[band |-> bands[k].band,
                  ratio |-> bands[k].analysis.dominance_ratio]>>
          ELSE <<>>)
         \o RatiosListed(bands, positions, k + 1)

RECURSIVE DenominatorProduct(_, _)
DenominatorProduct(bands, positions) ==
    IF positions = {} THEN 1
    ELSE LET k == CHOOSE x \in positions : TRUE
         IN  bands[k].analysis.dominance_ratio[2]
             * DenominatorProduct(bands, positions \ {k})

\* The sum of the ratios at the positions, as a numerator over the common
\* denominator d.
RECURSIVE NumeratorSum(_, _, _)
NumeratorSum(bands, positions, d) ==
    IF positions = {} THEN 0
    ELSE LET k == CHOOSE x \in positions : TRUE
             ratio == bands[k].analysis.dominance_ratio
         IN  ratio[1] * (d \div ratio[2]) + NumeratorSum(bands, positions \ {k}, d)

\* C12: band_specific_ratios holds exactly the bands whose ratio is not
\* +infinity; average_dominance_ratio is the arithmetic mean of those
\* ratios, and 1 when there is none; a band with right_mean = 0 and
\* left_mean > 0 is Left with ratio +infinity and is not among them.
C12_AverageRatio ==
    Aggregated
    => LET r == ret.value
           bands == r.band_results
           finite == FiniteBands(bands)
           d == DenominatorProduct(bands, finite)
           avg == r.average_dominance_ratio
       IN  /\ r.band_specific_ratios = RatiosListed(bands, finite, 1)
           /\ IF finite = {}
              THEN avg = <<1, 1>>
              ELSE /\ avg[2] > 0
                   /\ avg[1] * d * Cardinality(finite)
                         = avg[2] * NumeratorSum(bands, finite, d)
           /\ \A k \in 1..Len(bands) :
                 (/\ bands[k].analysis.right_mean[1] = 0
                  /\ bands[k].analysis.left_mean[1] > 0)
                 => /\ bands[k].analysis.dominant_hemisphere = "Left"
                    /\ bands[k].analysis.dominance_ratio = Inf
                    /\ \A i \in 1..Len(r.band_specific_ratios) :
                          r.band_specific_ratios[i].band # bands[k].band

\* A Left band with right_mean = 0 (ratio +infinity), a band of ratio 2 and
\* a band of ratio 1: the average of the two finite ratios is 3/2.
C12_Witness ==
    /\ Aggregated
    /\ Len(ret.value.band_results) = 3
    /\ ret.value.band_results[1].analysis.dominance_ratio = Inf
    /\ ret.value.band_results[1].analysis.right_mean[1] = 0
    /\ ret.value.band_results[1].analysis.dominant_hemisphere = "Left"
    /\ SameValue(ret.value.band_results[2].analysis.dominance_ratio, <<2, 1>>)
    /\ SameValue(ret.value.band_results[3].analysis.dominance_ratio, <<1, 1>>)
    /\ Len(ret.value.band_specific_ratios) = 2
    /\ SameValue(ret.value.average_dominance_ratio, <<3, 2>>)

\* C13 as stated: whenever Bilateral is the dominant hemisphere of a majority
\* of the bands, or left_count equals right_count, overall_dominance is
\* Mixed.
C13_BilateralMajorityMixed ==
    Aggregated
    => LET r == ret.value
           bands == r.band_results
           nl == Cardinality(BandsOf(bands, "Left"))
           nr == Cardinality(BandsOf(bands, "Right"))
           nb == Cardinality(BandsOf(bands, "Bilateral"))
       IN  (2 * nb > Len(bands) \/ nl = nr) => r.overall_dominance = "Mixed"

\* C13 amended: whenever left_count equals right_count, overall_dominance is
\* Mixed; a Bilateral majority gives Mixed only then, and Left or Right, by
\* the larger of the two counts, otherwise.
C13_TieMixed ==
    Aggregated
    => LET r == ret.value
           bands == r.band_results
           nl == Cardinality(BandsOf(bands, "Left"))
           nr == Cardinality(BandsOf(bands, "Right"))
           nb == Cardinality(BandsOf(bands, "Bilateral"))
       IN  /\ nl = nr => r.overall_dominance = "Mixed"
           /\ (2 * nb > Len(bands) /\ nl > nr) => r.overall_dominance = "Left"
           /\ (2 * nb > Len(bands) /\ nr > nl) => r.overall_dominance = "Right"

\* Three bands, all Bilateral: a Bilateral majority with equal Left and
\* Right counts, Mixed.
C13_Witness ==
    /\ Aggregated
    /\ Len(ret.value.band_results) = 3
    /\ BandsOf(ret.value.band_results, "Bilateral") = {1, 2, 3}
    /\ ret.value.overall_dominance = "Mixed"

\* The bands whose most active channel is ch.
BandsActive(bands, ch) ==
    {k \in 1..Len(bands) : bands[k].analysis.most_active_channel = ch}

\* The first band whose most active channel is ch.
FirstActive(bands, ch) ==
    CHOOSE k \in BandsActive(bands, ch) : \A j \in BandsActive(bands, ch) : k <= j

RECURSIVE TallySum(_)
TallySum(frequency) ==
    IF frequency = <<>> THEN 0 ELSE Head(frequency).count + TallySum(Tail(frequency))

\* C14: channel_frequency maps each channel that is a band's most active
\* channel to the number of such bands (the tallies sum to the number of
\* bands); most_frequent_active_channel has the highest tally, and among the
\* channels of that tally it is the one that became a band's most active
\* channel first.
C14_MostFrequentChannel ==
    Aggregated
    => LET r == ret.value
           bands == r.band_results
           frequency == r.channel_frequency
           top == r.most_frequent_active_channel
       IN  /\ \A i, j \in 1..Len(frequency) :
                 frequency[i].channel = frequency[j].channel => i = j
           /\ \A i \in 1..Len(frequency) :
                 /\ frequency[i].count >= 1
                 /\ frequency[i].count
                       = Cardinality(BandsActive(bands, frequency[i].channel))
           /\ \A k \in 1..Len(bands) :
                 \E i \in 1..Len(frequency) :
                    frequency[i].channel = bands[k].analysis.most_active_channel
           /\ TallySum(frequency) = Len(bands)
           /\ BandsActive(bands, top) # {}
           /\ \A i \in 1..Len(frequency) :
                 LET ch == frequency[i].channel IN
                 /\ Cardinality(BandsActive(bands, ch))
                       <= Cardinality(BandsActive(bands, top))
                 /\ (ch # top /\ Cardinality(BandsActive(bands, ch))
                                    = Cardinality(BandsActive(bands, top)))
                    => FirstActive(bands, top) < FirstActive(bands, ch)

\* Three bands with three different most active channels: every tally is 1
\* and the first band's channel is the most frequent.
C14_Witness ==
    /\ Aggregated
    /\ Len(ret.value.band_results) = 3
    /\ Len(ret.value.channel_frequency) = 3
    /\ ret.value.band_results[1].analysis.most_active_channel = "C4"
    /\ ret.value.most_frequent_active_channel = "C4"

====
